---- MODULE Spec2Model ----
(***************************************************************************)
(* The in-memory user directory of server.js: the collection `users`, the  *)
(* counter `nextId`, and the handlers of /api/users and /api/users/:id.    *)
(* A string is a sequence of one-character strings, so that toLowerCase,   *)
(* trim, parseInt and the email pattern are computed character by          *)
(* character.                                                              *)
(***************************************************************************)
EXTENDS Integers, Sequences, FiniteSets, TLC

\* users, nextId: the store; clock: the latest reading of the system clock;
\* req, res: the request handled last and the response sent to it;
\* everHeld: the ids that users have held so far (history, not program state);
\* inflight, answered, before: the requests in flight at the same time;
\* lastList: the last list request and its response, while the store is as it
\* was then (history, not program state); env: process.env.NODE_ENV
VARIABLES users, nextId, clock, req, res, everHeld, inflight, answered, before,
          lastList, env

vars == <<users, nextId, clock, req, res, everHeld, inflight, answered, before,
          lastList, env>>

---------------------------------------------------------------------------
(* Bounds *)

\* the id counter is not advanced beyond this value
MaxNextId == 6

\* the clock readings are 0..MaxClock
MaxClock == 2

\* the number of requests that are in flight at the same time
MaxInFlight == 2

---------------------------------------------------------------------------
(* Characters and strings *)

UpperChars == <<"A","B","C","D","E","F","G","H","I","J","K","L","M",
                "N","O","P","Q","R","S","T","U","V","W","X","Y","Z">>

LowerChars == <<"a","b","c","d","e","f","g","h","i","j","k","l","m",
                "n","o","p","q","r","s","t","u","v","w","x","y","z">>

\* \s of a regular expression, and the characters trim() removes
IsSpace(c) == c \in {" ", "\t", "\n"}

\* the lower-case letter of each upper-case letter
CaseMap == [i \in DOMAIN UpperChars |-> LowerChars[i]]

UpperSet == {UpperChars[i] : i \in DOMAIN UpperChars}

UpperIndex == [c \in UpperSet |-> CHOOSE i \in DOMAIN UpperChars : UpperChars[i] = c]

toLowerChar(c) == IF c \in UpperSet THEN CaseMap[UpperIndex[c]] ELSE c

\* String.prototype.toLowerCase
toLowerCase(s) == [i \in DOMAIN s |-> toLowerChar(s[i])]

RECURSIVE trimStart(_)
trimStart(s) ==
  IF s # <<>> /\ IsSpace(Head(s)) THEN trimStart(Tail(s)) ELSE s

RECURSIVE trimEnd(_)
trimEnd(s) ==
  IF s # <<>> /\ IsSpace(s[Len(s)])
  THEN trimEnd(SubSeq(s, 1, Len(s) - 1))
  ELSE s

\* String.prototype.trim
trim(s) == trimEnd(trimStart(s))

---------------------------------------------------------------------------
(* Values of a parsed request body *)

\* a field of req.body: absent (undefined), a string, a number or an array
\* holding one string; s is the text the value has when converted to a string
Undefined == [t |-> "undefined", s |-> <<"u","n","d","e","f","i","n","e","d">>]
Str(s)    == [t |-> "string", s |-> s]
Num(s)    == [t |-> "number", s |-> s]
Arr(s)    == [t |-> "array", s |-> s]

\* !v is false
Truthy(v) ==
  CASE v.t = "undefined" -> FALSE
    [] v.t = "string"    -> v.s # <<>>
    [] v.t = "number"    -> v.s # <<"0">>
    [] v.t = "array"     -> TRUE

\* typeof v === 'string'
IsString(v) == v.t = "string"

\* calling v.toLowerCase() or v.trim() succeeds
HasStringMethods(v) == v.t = "string"

\* /^[^\s@]+@[^\s@]+\.[^\s@]+$/.test(v): the text of v has one "@", no
\* whitespace, a character before the "@", and after it a "." that has a
\* character on both sides
isValidEmail(v) ==
  LET s == v.s IN
  \E i \in DOMAIN s :
    /\ s[i] = "@"
    /\ i > 1
    /\ \A k \in DOMAIN s : ~IsSpace(s[k]) /\ (s[k] = "@" => k = i)
    /\ \E j \in DOMAIN s : j > i + 1 /\ j < Len(s) /\ s[j] = "."

---------------------------------------------------------------------------
(* parseInt *)

DecDigits == <<"0","1","2","3","4","5","6","7","8","9">>

HexDigits == <<"0","1","2","3","4","5","6","7","8","9","a","b","c","d","e","f">>

IsDigit(c, digits) == \E i \in DOMAIN digits : digits[i] = toLowerChar(c)

DigitValue(c, digits) ==
  (CHOOSE i \in DOMAIN digits : digits[i] = toLowerChar(c)) - 1

\* the value of the longest prefix of s made of digits, acc being the value
\* of the digits read so far
RECURSIVE DigitsValue(_, _, _)
DigitsValue(s, digits, acc) ==
  IF s # <<>> /\ IsDigit(Head(s), digits)
  THEN DigitsValue(Tail(s), digits, acc * Len(digits) + DigitValue(Head(s), digits))
  ELSE acc

NaN == [nan |-> TRUE, n |-> 0]

\* parseInt(s) with no radix: leading whitespace is skipped, a sign is read,
\* "0x" selects base 16, then the longest prefix of digits is the value and
\* whatever follows it is ignored; NaN when there is no digit
parseInt(s) ==
  LET s1   == trimStart(s)
      neg  == s1 # <<>> /\ Head(s1) = "-"
      s2   == IF s1 # <<>> /\ Head(s1) \in {"-", "+"} THEN Tail(s1) ELSE s1
      hex  == Len(s2) >= 2 /\ s2[1] = "0" /\ s2[2] \in {"x", "X"}
      s3   == IF hex THEN SubSeq(s2, 3, Len(s2)) ELSE s2
      digs == IF hex THEN HexDigits ELSE DecDigits
  IN IF s3 = <<>> \/ ~IsDigit(Head(s3), digs)
     THEN NaN
     ELSE [nan |-> FALSE,
           n   |-> (IF neg THEN -1 ELSE 1) * DigitsValue(s3, digs, 0)]

isNaN(p) == p.nan

---------------------------------------------------------------------------
(* The store *)

JohnDoe    == <<"J","o","h","n"," ","D","o","e">>
JaneSmith  == <<"J","a","n","e"," ","S","m","i","t","h">>
BobJohnson == <<"B","o","b"," ","J","o","h","n","s","o","n">>

ExampleCom == <<"@","e","x","a","m","p","l","e",".","c","o","m">>

\* the sample data: these three records have no updatedAt
SeedUsers(t) ==
  << [id |-> 1, name |-> JohnDoe,    email |-> <<"j","o","h","n">> \o ExampleCom, createdAt |-> t],
     [id |-> 2, name |-> JaneSmith,  email |-> <<"j","a","n","e">> \o ExampleCom, createdAt |-> t],
     [id |-> 3, name |-> BobJohnson, email |-> <<"b","o","b">> \o ExampleCom,     createdAt |-> t] >>

FirstNextId == 4

\* the ids of the users of a collection
Ids(us) == {us[i].id : i \in DOMAIN us}

\* users.findIndex(u => u.id === userId): 0 stands for -1
findIndex(us, userId) ==
  IF \E i \in DOMAIN us : us[i].id = userId
  THEN CHOOSE i \in DOMAIN us :
         us[i].id = userId /\ \A j \in DOMAIN us : us[j].id = userId => i <= j
  ELSE 0

\* RemoveAt removing the last user, as users.pop() would
RemoveLast(us, i) == SubSeq(us, 1, Len(us) - 1)

\* users.splice(i, 1) leaves this
RemoveAt(us, i) == SubSeq(us, 1, i - 1) \o SubSeq(us, i + 1, Len(us))

\* u with u[k] = v assigned
SetField(u, k, v) == [f \in DOMAIN u \cup {k} |-> IF f = k THEN v ELSE u[f]]

---------------------------------------------------------------------------
(* Responses *)

\* what is sent: status and JSON body; by is "handler" when the route handler
\* sent it and "middleware" when the global error middleware did
Response(status, error, message, details, user, by) ==
  [status |-> status, error |-> error, message |-> message,
   details |-> details, user |-> user, by |-> by]

Fail(status, error) == Response(status, error, "", <<>>, <<>>, "handler")

InvalidId  == Fail(400, "Invalid user ID format")
NotFound   == Fail(404, "User not found")
NameError  == Fail(400, "Name must be a string with at least 2 characters")
EmailError == Fail(400, "Please provide a valid email address")
Internal   == Fail(500, "Internal server error")

CreateConflict == Fail(409, "User with this email already exists")
UpdateConflict == Fail(409, "Another user with this email already exists")

ValidationFailed(name, email) ==
  Response(400, "Validation failed", "",
           << [name  |-> IF ~Truthy(name) THEN "Name is required" ELSE "null",
               email |-> IF ~Truthy(email) THEN "Email is required" ELSE "null"] >>,
           <<>>, "handler")

\* values of NODE_ENV
Environments == {"production", "development"}

\* ErrorDetails with the test for production left out
ErrorDetailsAlways(nodeEnv) ==
  << [details |-> "res.status.status is not a function", stack |-> "TypeError"] >>

\* what the global error middleware adds to its body: err.message and
\* err.stack, unless NODE_ENV is 'production'
ErrorDetails(nodeEnv) ==
  IF nodeEnv = "production" THEN <<>>
  ELSE << [details |-> "res.status.status is not a function",
           stack |-> "TypeError"] >>

\* the catch block of the update handler calls res.status.status, which is not
\* a function: the failure leaves the handler and the global error middleware
\* answers
Unhandled ==
  Response(500, "Internal server error", "", ErrorDetails(env), <<>>,
           "middleware")

Ok(status, message, user) ==
  Response(status, "", message, <<>>, <<user>>, "handler")

Request(op, id, name, email) == [op |-> op, id |-> id, name |-> name, email |-> email]

---------------------------------------------------------------------------
(* Validation *)

\* NameInvalid measuring the name as it was sent
NameInvalidRaw(name) == ~IsString(name) \/ Len(name.s) < 2

\* typeof name !== 'string' || name.trim().length < 2
NameInvalid(name) == ~IsString(name) \/ Len(trim(name.s)) < 2

\* the callback of users.find calls email.toLowerCase() for the first user it
\* visits, which throws a TypeError when email is not a string
FindThrows(us, email) == us # <<>> /\ ~HasStringMethods(email)

\* EmailTaken comparing the addresses as they are written
EmailTakenExact(us, email) ==
  \E i \in DOMAIN us : us[i].email = email.s

\* EmailTaken looking in the collection as it was when the request arrived
EmailTakenWhenReceived(us, email) ==
  \E i \in DOMAIN before : toLowerCase(before[i].email) = toLowerCase(email.s)

\* users.find(u => u.email.toLowerCase() === email.toLowerCase())
EmailTaken(us, email) ==
  \E i \in DOMAIN us : toLowerCase(us[i].email) = toLowerCase(email.s)

\* EmailTakenByOther comparing the addresses as they are written
EmailTakenByOtherExact(us, email, userId) ==
  \E i \in DOMAIN us : us[i].email = email.s /\ us[i].id # userId

\* EmailTakenByOther counting the updated user too
EmailTakenByAnyone(us, email, userId) ==
  \E i \in DOMAIN us : toLowerCase(us[i].email) = toLowerCase(email.s)

\* users.find(u => u.email.toLowerCase() === email.toLowerCase() && u.id !== userId)
EmailTakenByOther(us, email, userId) ==
  \E i \in DOMAIN us :
    toLowerCase(us[i].email) = toLowerCase(email.s) /\ us[i].id # userId

\* CreateChecks with the email pattern checked before the name
CreateChecksEmailFirst(us, name, email) ==
  IF ~Truthy(name) \/ ~Truthy(email) THEN <<ValidationFailed(name, email)>>
  ELSE IF ~isValidEmail(email) THEN <<EmailError>>
  ELSE IF NameInvalid(name) THEN <<NameError>>
  ELSE IF FindThrows(us, email) THEN <<Internal>>
  ELSE IF EmailTaken(us, email) THEN <<CreateConflict>>
  ELSE <<>>

\* the checks of the create handler in their order: the response of the first
\* one that fails, or <<>> when all pass
CreateChecks(us, name, email) ==
  IF ~Truthy(name) \/ ~Truthy(email) THEN <<ValidationFailed(name, email)>>
  ELSE IF NameInvalid(name) THEN <<NameError>>
  ELSE IF ~isValidEmail(email) THEN <<EmailError>>
  ELSE IF FindThrows(us, email) THEN <<Internal>>
  ELSE IF EmailTaken(us, email) THEN <<CreateConflict>>
  ELSE <<>>

\* the checks of the update handler on the body, once the user is found
UpdateChecks(us, userId, name, email) ==
  IF name # Undefined /\ NameInvalid(name) THEN <<NameError>>
  ELSE IF email # Undefined /\ ~isValidEmail(email) THEN <<EmailError>>
  ELSE IF email # Undefined /\ FindThrows(us, email) THEN <<Unhandled>>
  ELSE IF email # Undefined /\ EmailTakenByOther(us, email, userId)
       THEN <<UpdateConflict>>
  ELSE <<>>

---------------------------------------------------------------------------
(* Inputs *)

\* values of the name field of a body: absent, the empty string, a number, a
\* one-letter name, names that trim() shortens, and valid names
NameInputs ==
  { Undefined, Str(<<>>), Num(<<"7">>), Str(<<" ","A">>), Str(<<" ","A","l"," ">>) }

\* values of the email field: absent, the empty string, an array whose text
\* matches the pattern, a text that does not match it, a new address, and the
\* address of the first sample user in upper case
EmailInputs ==
  { Undefined, Str(<<>>), Arr(<<"a","@","b",".","c">>),
    Str(<<" ","a","@","b",".","c">>), Str(<<"A","@","b",".","C">>),
    Str(<<"J","O","H","N","@","E","X","A","M","P","L","E",".","C","O","M">>) }

\* values of the :id path parameter
PathIds ==
  { <<"1">>, <<"2">>, <<"3">>, <<"4">>, <<"5">>,
    <<"i","n","v","a","l","i","d">>, <<"1","a","b","c">>, <<"0","x","3">> }

---------------------------------------------------------------------------
(* The handlers *)

\* between two requests no request and no response exist
NoRequest  == Request("none", <<>>, Undefined, Undefined)
NoResponse == Response(0, "", "", <<>>, <<>>, "none")

Init ==
  /\ clock = 0
  /\ users = SeedUsers(0)
  /\ nextId = FirstNextId
  /\ everHeld = Ids(SeedUsers(0))
  /\ req = NoRequest
  /\ res = NoResponse
  /\ inflight = {}
  /\ answered = <<>>
  /\ before = <<>>
  /\ lastList = <<>>
  /\ env \in Environments

\* no request waits while another is handled
Sequential == UNCHANGED <<inflight, answered, before>>

\* the requests arrive one at a time, and no client compares two responses
OneAtATime == Sequential /\ UNCHANGED lastList

\* the checks of the path id that the get, update and delete handlers share:
\* the response of the first one that fails, or <<>>
IdChecks(us, id) ==
  LET userId == parseInt(id) IN
  IF isNaN(userId) THEN <<InvalidId>>
  ELSE IF findIndex(us, userId.n) = 0 THEN <<NotFound>>
  ELSE <<>>

\* app.get('/api/users/:id')
GetUser(id) ==
  LET failed == IdChecks(users, id)
      idx    == findIndex(users, parseInt(id).n)
  IN /\ req = NoRequest
     /\ req' = Request("get", id, Undefined, Undefined)
     /\ UNCHANGED env
     /\ res' = IF failed # <<>> THEN failed[1]
               ELSE Response(200, "", "", <<>>, <<users[idx]>>, "handler")
     /\ UNCHANGED <<users, nextId, clock, everHeld>>

\* AssignId taking the id from the length of the collection
AssignIdByLength(us, nid) == Len(us) + 1

\* id: nextId++ gives the new user the value the counter had
AssignId(us, nid) == nid

\* NewUser storing the email as it was sent
NewUserRawEmail(id, name, email, t1, t2) ==
  [id |-> id, name |-> trim(name.s), email |-> trim(email.s),
   createdAt |-> t1, updatedAt |-> t2]

\* the object literal of the create handler
NewUser(id, name, email, t1, t2) ==
  [id |-> id, name |-> trim(name.s), email |-> trim(toLowerCase(email.s)),
   createdAt |-> t1, updatedAt |-> t2]

\* app.post('/api/users'); t1 and t2 are the two readings of the clock
CreateUser(name, email, t1, t2) ==
  LET failed == CreateChecks(users, name, email) IN
  /\ req = NoRequest
  /\ nextId < MaxNextId
  /\ clock <= t1 /\ t1 <= t2
  /\ req' = Request("create", <<>>, name, email)
  /\ UNCHANGED env
  /\ IF failed # <<>>
     THEN /\ res' = failed[1]
          /\ UNCHANGED <<users, nextId, clock, everHeld>>
     ELSE IF ~HasStringMethods(email)
     \* id: nextId++ is evaluated before email.toLowerCase() throws
     THEN /\ res' = Internal
          /\ nextId' = nextId + 1
          /\ UNCHANGED <<users, clock, everHeld>>
     ELSE LET newUser == NewUser(AssignId(users, nextId), name, email, t1, t2) IN
          /\ nextId' = nextId + 1
          /\ users' = Append(users, newUser)
          /\ everHeld' = everHeld \cup {newUser.id}
          /\ clock' = t2
          /\ res' = Ok(201, "User created successfully", newUser)

\* UpdateFailure checking the body before it looks the user up
UpdateFailureBodyFirst(us, id, name, email) ==
  LET userId == parseInt(id)
      body   == UpdateChecks(us, userId.n, name, email)
  IN IF isNaN(userId) THEN <<InvalidId>>
     ELSE IF body # <<>> THEN body
     ELSE IdChecks(us, id)

\* the checks of the update handler in their order: the path id, then the body
UpdateFailure(us, id, name, email) ==
  LET failed == IdChecks(us, id) IN
  IF failed # <<>> THEN failed
  ELSE UpdateChecks(us, parseInt(id).n, name, email)

\* UpdatedUser assigning both fields whether or not the body has them
UpdatedUserOverwrite(u, name, email, t) ==
  SetField(SetField(SetField(u, "name", trim(name.s)),
                    "email", trim(toLowerCase(email.s))),
           "updatedAt", t)

\* UpdatedUser storing the name as it was sent
UpdatedUserRawName(u, name, email, t) ==
  LET u1 == IF name # Undefined THEN SetField(u, "name", name.s) ELSE u
      u2 == IF email # Undefined
            THEN SetField(u1, "email", trim(toLowerCase(email.s)))
            ELSE u1
  IN SetField(u2, "updatedAt", t)

\* the assignments of the update handler to users[userIndex]
UpdatedUser(u, name, email, t) ==
  LET u1 == IF name # Undefined THEN SetField(u, "name", trim(name.s)) ELSE u
      u2 == IF email # Undefined
            THEN SetField(u1, "email", trim(toLowerCase(email.s)))
            ELSE u1
  IN SetField(u2, "updatedAt", t)

\* app.put('/api/users/:id'); t is the reading of the clock
UpdateUser(id, name, email, t) ==
  LET failed    == UpdateFailure(users, id, name, email)
      userIndex == findIndex(users, parseInt(id).n)
  IN /\ req = NoRequest
     /\ clock <= t
     /\ req' = Request("update", id, name, email)
     /\ UNCHANGED env
     /\ IF failed # <<>>
        THEN res' = failed[1] /\ UNCHANGED <<users, nextId, clock, everHeld>>
        ELSE /\ users' = [users EXCEPT
                            ![userIndex] = UpdatedUser(@, name, email, t)]
             /\ clock' = t
             /\ res' = Ok(200, "User updated successfully", users'[userIndex])
             /\ UNCHANGED <<nextId, everHeld>>

\* the deletedUser of the delete response
DeletedUser(u) == [id |-> u.id, name |-> u.name, email |-> u.email]

\* app.delete('/api/users/:id')
DeleteUser(id) ==
  LET failed    == IdChecks(users, id)
      userIndex == findIndex(users, parseInt(id).n)
  IN /\ req = NoRequest
     /\ req' = Request("delete", id, Undefined, Undefined)
     /\ UNCHANGED env
     /\ IF failed # <<>>
        THEN res' = failed[1] /\ UNCHANGED <<users, nextId, clock, everHeld>>
        ELSE /\ users' = RemoveAt(users, userIndex)
             /\ res' = Ok(200, "User deleted successfully",
                          DeletedUser(users[userIndex]))
             /\ UNCHANGED <<nextId, clock, everHeld>>

\* the response has been sent: the request and response objects are gone and
\* the next request can be dispatched
Finish ==
  /\ req # NoRequest
  /\ req' = NoRequest
  /\ UNCHANGED env
  /\ res' = NoResponse
  /\ UNCHANGED <<users, nextId, clock, everHeld>>

\* No handler reads a timestamp back, so Spec lets every reading of the clock
\* return the same instant; SpecTime lets the clock advance, with fewer bodies.
Next ==
  \/ \E id \in PathIds : GetUser(id) /\ OneAtATime
  \/ \E name \in NameInputs, email \in EmailInputs :
       CreateUser(name, email, clock, clock) /\ OneAtATime
  \/ \E id \in PathIds, name \in NameInputs, email \in EmailInputs :
       UpdateUser(id, name, email, clock) /\ OneAtATime
  \/ \E id \in PathIds : DeleteUser(id) /\ OneAtATime
  \/ Finish /\ OneAtATime

Spec == Init /\ [][Next]_vars

TimeNames  == { Undefined, Str(<<" ","A","l"," ">>) }
TimeEmails == { Undefined, Str(<<"A","@","b",".","C">>) }
TimeIds    == { <<"1">>, <<"3">>, <<"4">> }

NextTime ==
  \/ \E id \in TimeIds : GetUser(id) /\ OneAtATime
  \/ \E name \in TimeNames, email \in TimeEmails :
       \E t1 \in clock..MaxClock : \E t2 \in t1..MaxClock :
         CreateUser(name, email, t1, t2) /\ OneAtATime
  \/ \E id \in TimeIds, name \in TimeNames, email \in TimeEmails :
       \E t \in clock..MaxClock : UpdateUser(id, name, email, t) /\ OneAtATime
  \/ \E id \in TimeIds : DeleteUser(id) /\ OneAtATime
  \/ Finish /\ OneAtATime

SpecTime == Init /\ [][NextTime]_vars

---------------------------------------------------------------------------
(* The list handler *)

\* String.prototype.includes: sub occurs in s
RECURSIVE includes(_, _)
includes(s, sub) ==
  IF Len(sub) > Len(s) THEN FALSE
  ELSE IF SubSeq(s, 1, Len(sub)) = sub THEN TRUE
  ELSE includes(Tail(s), sub)

\* req.query.name.toLowerCase() throws a TypeError when the parameter was
\* given twice and is an array
FilterThrows(q) == Truthy(q) /\ ~HasStringMethods(q)

\* FilterBy comparing the field with the filter as it is written
FilterByExact(us, field, q) ==
  IF Truthy(q)
  THEN SelectSeq(us, LAMBDA u : includes(toLowerCase(u[field]), q.s))
  ELSE us

\* if (req.query.f) filteredUsers = filteredUsers.filter(user =>
\*   user.f.toLowerCase().includes(req.query.f.toLowerCase()))
FilterBy(us, field, q) ==
  IF Truthy(q)
  THEN SelectSeq(us, LAMBDA u : includes(toLowerCase(u[field]), toLowerCase(q.s)))
  ELSE us

\* the filtered sequence: the name filter, then the email filter
Filtered(us, nameFilter, emailFilter) ==
  FilterBy(FilterBy(us, "name", nameFilter), "email", emailFilter)

DefaultPage == 1

DefaultLimit == 10

\* parseInt(q) || default: the default replaces NaN and 0, and nothing else
QueryInt(q, default) ==
  LET p == parseInt(q.s) IN
  IF isNaN(p) \/ p.n = 0 THEN default ELSE p.n

\* Array.prototype.slice(start, end): a negative index counts from the end
slice(s, start, end) ==
  LET from == IF start < 0
              THEN (IF Len(s) + start < 0 THEN 0 ELSE Len(s) + start)
              ELSE (IF start > Len(s) THEN Len(s) ELSE start)
      to   == IF end < 0
              THEN (IF Len(s) + end < 0 THEN 0 ELSE Len(s) + end)
              ELSE (IF end > Len(s) THEN Len(s) ELSE end)
  IN SubSeq(s, from + 1, to)

\* ceilDiv rounding down, as Math.floor does
floorDiv(n, d) == n \div d

\* Math.ceil(n / d) for n >= 0 and d # 0
ceilDiv(n, d) ==
  IF d > 0 THEN (n + d - 1) \div d ELSE 0 - (n \div (0 - d))

\* the pagination object of the list response
Pagination(filtered, page, limit) ==
  [currentPage |-> page,
   totalPages  |-> ceilDiv(Len(filtered), limit),
   totalUsers  |-> Len(filtered),
   hasNext     |-> (page - 1) * limit + limit < Len(filtered),
   hasPrev     |-> (page - 1) * limit > 0]

ListRequest(nameFilter, emailFilter, page, limit) ==
  [op |-> "list", id |-> <<>>, name |-> nameFilter, email |-> emailFilter,
   page |-> page, limit |-> limit]

ListResponse(paginated, pagination) ==
  [status |-> 200, users |-> paginated, pagination |-> pagination,
   by |-> "handler"]

\* the response of the list handler for the collection us
ListAnswer(us, nameFilter, emailFilter, pageQuery, limitQuery) ==
  LET filtered   == Filtered(us, nameFilter, emailFilter)
      page       == QueryInt(pageQuery, DefaultPage)
      limit      == QueryInt(limitQuery, DefaultLimit)
      startIndex == (page - 1) * limit
      endIndex   == startIndex + limit
  IN IF FilterThrows(nameFilter) \/ FilterThrows(emailFilter)
     THEN Internal
     ELSE ListResponse(slice(filtered, startIndex, endIndex),
                       Pagination(filtered, page, limit))

\* AfterList for a handler that filters the collection itself
AfterListInPlace(us, nameFilter, emailFilter) ==
  IF FilterThrows(nameFilter) \/ FilterThrows(emailFilter) THEN us
  ELSE Filtered(us, nameFilter, emailFilter)

\* the collection after the list handler: [...users] copies the array, and
\* filter and slice return new arrays, so users is as it was
AfterList(us, nameFilter, emailFilter) == us

\* app.get('/api/users')
ListUsers(nameFilter, emailFilter, pageQuery, limitQuery) ==
  /\ req = NoRequest
  /\ req' = ListRequest(nameFilter, emailFilter, pageQuery, limitQuery)
  /\ UNCHANGED env
  /\ res' = ListAnswer(users, nameFilter, emailFilter, pageQuery, limitQuery)
  /\ users' = AfterList(users, nameFilter, emailFilter)
  /\ UNCHANGED <<nextId, clock, everHeld>>

\* StatsResponse counting the users by the id counter
StatsResponseByCounter(totalUsers) ==
  [status |-> 200, totalUsers |-> nextId - 1, by |-> "handler"]

\* the body of the stats response; uptime and timestamp are not modelled
StatsResponse(totalUsers) ==
  [status |-> 200, totalUsers |-> totalUsers, by |-> "handler"]

\* app.get('/api/stats')
GetStats ==
  /\ req = NoRequest
  /\ req' = Request("stats", <<>>, Undefined, Undefined)
  /\ UNCHANGED env
  /\ res' = StatsResponse(Len(users))
  /\ UNCHANGED <<users, nextId, clock, everHeld>>

\* values of the name and email query parameters: absent, empty, texts in
\* upper case, and a parameter given twice
NameFilters ==
  { Undefined, Str(<<>>), Str(<<"J","O","H","N">>), Arr(<<"a">>) }

EmailFilters ==
  { Undefined, Str(<<"N","@","E","X">>) }

\* values of the page and limit query parameters
PageQueries ==
  { Undefined, Str(<<"0">>), Str(<<"1">>), Str(<<"2">>), Str(<<"3">>),
    Str(<<"-","1">>), Str(<<"a","b","c">>) }

LimitQueries ==
  { Undefined, Str(<<"0">>), Str(<<"1">>), Str(<<"2">>),
    Str(<<"-","1">>), Str(<<"a","b","c">>) }

ListName   == Str(<<" ","A","l"," ">>)
ListEmails == { Str(<<"A","@","b",".","C">>), Str(<<"j","o","@","e","x",".","c">>) }
ListIds    == { <<"1">>, <<"2">>, <<"3">>, <<"4">> }

\* the store changes as in Spec, with fewer bodies, and is listed
NextList ==
  \/ \E nf \in NameFilters, ef \in EmailFilters,
        p \in PageQueries, l \in LimitQueries :
       ListUsers(nf, ef, p, l) /\ OneAtATime
  \/ \E email \in ListEmails :
       CreateUser(ListName, email, clock, clock) /\ OneAtATime
  \/ \E id \in ListIds :
       UpdateUser(id, ListName, Undefined, clock) /\ OneAtATime
  \/ \E id \in ListIds : DeleteUser(id) /\ OneAtATime
  \/ GetStats /\ OneAtATime
  \/ Finish /\ OneAtATime

SpecList == Init /\ [][NextList]_vars

---------------------------------------------------------------------------
(* A client that repeats its list requests *)

ReadNameFilters == { Undefined, Str(<<"O">>), Arr(<<"a">>) }
ReadPages       == { Undefined, Str(<<"2">>), Str(<<"-","1">>) }
ReadLimits      == { Undefined, Str(<<"1">>) }
ReadIds         == { <<"1">>, <<"4">> }

\* the client keeps the list request and its response, and whether it had
\* sent the same request the time before
Remember ==
  lastList' = [request |-> req', response |-> res',
               repeated |-> lastList # <<>> /\ lastList.request = req']

\* what the client kept is dropped once a request has changed the store
Forget ==
  lastList' = IF users' = users /\ nextId' = nextId THEN lastList ELSE <<>>

NextRead ==
  \/ \E nf \in ReadNameFilters, p \in ReadPages, l \in ReadLimits :
       ListUsers(nf, Undefined, p, l) /\ Sequential /\ Remember
  \/ \E id \in ReadIds : GetUser(id) /\ OneAtATime
  \/ GetStats /\ OneAtATime
  \/ \E email \in ListEmails :
       CreateUser(ListName, email, clock, clock) /\ Sequential /\ Forget
  \/ \E id \in ReadIds :
       UpdateUser(id, ListName, Undefined, clock) /\ Sequential /\ Forget
  \/ \E id \in ReadIds : DeleteUser(id) /\ Sequential /\ Forget
  \/ Finish /\ OneAtATime

SpecRead == Init /\ [][NextRead]_vars

---------------------------------------------------------------------------
(* Requests in flight at the same time *)

\* Node runs one callback at a time. A request is in flight from the moment
\* its connection is accepted; express.json() reads its body asynchronously
\* and then calls the route handler, which has no await and no callback of its
\* own and so runs to its response in one turn of the event loop. The handlers
\* of the requests in flight run in any order.

\* the connections of the clients
Connections == 1..MaxInFlight

ConcEmails ==
  { Str(<<"A","@","b",".","C">>), Str(<<"a","@","B",".","c">>),
    Str(<<"J","O","H","N","@","E","X","A","M","P","L","E",".","C","O","M">>) }

ConcRequests ==
     { Request("create", <<>>, ListName, email) : email \in ConcEmails }
  \cup { Request("update", <<"1">>, Undefined, email) : email \in ConcEmails }
  \cup { Request("delete", id, Undefined, Undefined) : id \in { <<"1">>, <<"4">> } }

\* a request arrives on a free connection while no handler of the requests in
\* flight has run yet
Receive(c, r) ==
  /\ answered = <<>>
  /\ \A f \in inflight : f.connection # c
  /\ inflight' = inflight \cup { [connection |-> c, request |-> r] }
  /\ before' = users
  /\ UNCHANGED <<users, nextId, clock, req, res, everHeld, answered, lastList, env>>

\* the handler of f has run and its response is recorded
Answer(f) ==
  /\ inflight' = inflight \ {f}
  /\ answered' = Append(answered, [connection |-> f.connection,
                                    request |-> f.request, response |-> res'])
  /\ UNCHANGED <<before, lastList>>

\* the body of a request in flight is read and its route handler runs
HandleCreate(f) ==
  /\ f.request.op = "create"
  /\ CreateUser(f.request.name, f.request.email, clock, clock)
  /\ Answer(f)

HandleUpdate(f) ==
  /\ f.request.op = "update"
  /\ UpdateUser(f.request.id, f.request.name, f.request.email, clock)
  /\ Answer(f)

HandleDelete(f) ==
  /\ f.request.op = "delete"
  /\ DeleteUser(f.request.id)
  /\ Answer(f)

\* every request in flight is answered: the clients may send again
Settle ==
  /\ inflight = {} /\ answered # <<>> /\ req = NoRequest
  /\ answered' = <<>>
  /\ before' = <<>>
  /\ UNCHANGED <<users, nextId, clock, req, res, everHeld, inflight, lastList, env>>

NextConc ==
  \/ \E c \in Connections, r \in ConcRequests : Receive(c, r)
  \/ \E f \in inflight : HandleCreate(f)
  \/ \E f \in inflight : HandleUpdate(f)
  \/ \E f \in inflight : HandleDelete(f)
  \/ Finish /\ OneAtATime
  \/ Settle

SpecConc == Init /\ [][NextConc]_vars

---------------------------------------------------------------------------
(* Vocabulary of the properties *)

\* two strings are equal when compared case-insensitively
SameIgnoringCase(a, b) == toLowerCase(a) = toLowerCase(b)

\* email is a string that a user of us holds, compared case-insensitively
Collides(us, email) ==
  IsString(email) /\ \E i \in DOMAIN us : SameIgnoringCase(us[i].email, email.s)

\* name is a string of trimmed length >= 2
NameAcceptable(name) == IsString(name) /\ Len(trim(name.s)) >= 2

\* s is a base-10 integer: digits only, after an optional minus sign
IsBase10Integer(s) ==
  LET d == IF s # <<>> /\ Head(s) = "-" THEN Tail(s) ELSE s
  IN d # <<>> /\ \A k \in DOMAIN d : IsDigit(d[k], DecDigits)

Base10Value(s) ==
  IF Head(s) = "-" THEN 0 - DigitsValue(Tail(s), DecDigits, 0)
  ELSE DigitsValue(s, DecDigits, 0)

\* the ids of us are pairwise different
DistinctIds(us) == \A i, j \in DOMAIN us : i # j => us[i].id # us[j].id

ByPathId == {"get", "update", "delete"}

Mutating == {"create", "update", "delete"}

\* the ids that users held once and hold no more
Deleted == everHeld \ Ids(users)

---------------------------------------------------------------------------
(* Properties *)

\* C1: in every reachable state no two live users have emails that are equal
\* when compared case-insensitively
C1_EmailsUnique ==
  \A i, j \in DOMAIN users :
    i # j => ~SameIgnoringCase(users[i].email, users[j].email)

\* a request with the address of another user in another letter case has been
\* answered 409 while a created user is live
C1_Witness ==
  /\ req.op \in {"create", "update"}
  /\ res.status = 409
  /\ Collides(users, req.email)
  /\ \A i \in DOMAIN users : users[i].email # req.email.s
  /\ \E i \in DOMAIN users : users[i].id >= FirstNextId

\* C2: no two live users share an id, and every successful create returns an
\* id strictly greater than every id that any user has held before, so that
\* an id freed by delete is not assigned again
C2_IdsNeverReused ==
  [][ /\ DistinctIds(users) /\ DistinctIds(users')
      /\ Ids(users') \subseteq everHeld'
      /\ (req'.op = "create" /\ res'.status = 201) =>
           /\ \A k \in everHeld : k < res'.user[1].id
           /\ Ids(users') = Ids(users) \cup {res'.user[1].id} ]_vars

\* a create has succeeded after a created user and a sample user were deleted
C2_Witness ==
  /\ req.op = "create" /\ res.status = 201
  /\ \E k \in Deleted : k >= FirstNextId
  /\ \E k \in Deleted : k < FirstNextId

\* C3: a create request with an acceptable name and an email that matches
\* the pattern and collides with no live user is answered 201, and exactly one
\* user is appended, with the counter's next id, the email lowercased and
\* trimmed and the name trimmed
C3_CreateStores ==
  [][ ( /\ req'.op = "create"
        /\ NameAcceptable(req'.name)
        /\ IsString(req'.email) /\ isValidEmail(req'.email)
        /\ ~Collides(users, req'.email) )
      => /\ res'.status = 201
         /\ Len(users') = Len(users) + 1
         /\ SubSeq(users', 1, Len(users)) = users
         /\ users'[Len(users')].id = nextId
         /\ users'[Len(users')].email = trim(toLowerCase(req'.email.s))
         /\ users'[Len(users')].name = trim(req'.name.s)
         /\ res'.user = <<users'[Len(users')]>> ]_vars

\* a create whose name has surrounding blanks and whose email has upper-case
\* letters has succeeded
C3_Witness ==
  /\ req.op = "create" /\ res.status = 201
  /\ trim(req.name.s) # req.name.s
  /\ toLowerCase(req.email.s) # req.email.s
  /\ users[Len(users)].email = toLowerCase(req.email.s)

\* C4 as stated: a create request whose email equals, case-insensitively, the
\* email of a live user is always answered 409 'User with this email already
\* exists', and the collection does not gain a user
C4_DuplicateAlways409 ==
  [][ (req'.op = "create" /\ Collides(users, req'.email))
      => res' = CreateConflict /\ users' = users ]_vars

\* C4 amended: such a request is never answered 201 and the collection does
\* not gain a user; it is answered 409 when its name is acceptable
C4_DuplicateNever201 ==
  [][ (req'.op = "create" /\ Collides(users, req'.email))
      => /\ res'.status # 201
         /\ users' = users
         /\ NameAcceptable(req'.name) => res' = CreateConflict ]_vars

\* a create with an acceptable name and the address of a live user in another
\* letter case has been answered 409
C4_Witness ==
  /\ req.op = "create" /\ res = CreateConflict
  /\ NameAcceptable(req.name)
  /\ Collides(users, req.email)
  /\ \A i \in DOMAIN users : users[i].email # req.email.s

\* C5: for every path id that is not a base-10 integer, get, update and delete
\* answer 400 'Invalid user ID format'
C5_NonIntegerIdRejected ==
  (req.op \in ByPathId /\ ~IsBase10Integer(req.id)) => res = InvalidId

\* C6: for every integer id that no live user holds, get, update and delete
\* answer 404 'User not found', whatever the body of the update
C6_UnheldIdNotFound ==
  [][ ( /\ req'.op \in ByPathId
        /\ IsBase10Integer(req'.id)
        /\ Base10Value(req'.id) \notin Ids(users) )
      => res' = NotFound ]_vars

\* an update of an id that no user holds, with a body that has neither an
\* acceptable name nor a valid email, has been answered 404
C6_Witness ==
  /\ req.op = "update" /\ res = NotFound
  /\ IsBase10Integer(req.id) /\ Base10Value(req.id) \notin Ids(users)
  /\ req.name # Undefined /\ NameInvalid(req.name)
  /\ req.email # Undefined /\ ~isValidEmail(req.email)

\* the response to a create follows the order of the checks: presence of the
\* fields, the name, the email pattern, the duplicate
CreateOrder(us, r, s) ==
  LET missing  == ~Truthy(r.name) \/ ~Truthy(r.email)
      nameBad  == ~NameAcceptable(r.name)
      emailBad == ~isValidEmail(r.email)
  IN /\ missing =>
          /\ s.status = 400 /\ s.error = "Validation failed"
          /\ Len(s.details) = 1
          /\ ~Truthy(r.name)  <=> s.details[1].name = "Name is required"
          /\ ~Truthy(r.email) <=> s.details[1].email = "Email is required"
     /\ (~missing /\ nameBad) => s = NameError
     /\ (~missing /\ ~nameBad /\ emailBad) => s = EmailError
     /\ s.status = 409 =>
          ~missing /\ ~nameBad /\ ~emailBad /\ Collides(us, r.email)

\* the same for an update of a user that exists, which has no presence check
UpdateOrder(us, r, s) ==
  LET nameBad  == r.name # Undefined /\ ~NameAcceptable(r.name)
      emailBad == r.email # Undefined /\ ~isValidEmail(r.email)
  IN /\ nameBad => s = NameError
     /\ (~nameBad /\ emailBad) => s = EmailError
     /\ s.status = 409 => ~nameBad /\ ~emailBad /\ Collides(us, r.email)

\* C7: when a create or update request fails more than one check, the
\* response is that of the first failing check in the order presence, name,
\* email pattern, duplicate email
C7_FirstFailingCheck ==
  [][ /\ req'.op = "create" => CreateOrder(users, req', res')
      /\ (req'.op = "update" /\ IdChecks(users, req'.id) = <<>>)
           => UpdateOrder(users, req', res') ]_vars

\* a create that fails the name check, the email pattern and nothing before
\* them has been answered with the name error
C7_Witness ==
  /\ req.op = "create" /\ res = NameError
  /\ Truthy(req.name) /\ Truthy(req.email)
  /\ ~NameAcceptable(req.name) /\ ~isValidEmail(req.email)

\* C8: every create, update or delete request that does not succeed leaves
\* the user collection and the id counter unchanged
C8_FailureChangesNothing ==
  [][ (req'.op \in Mutating /\ res'.status \notin {200, 201})
      => users' = users /\ nextId' = nextId ]_vars

\* C9: a successful update changes only the fields present in the body and
\* updatedAt of the user addressed: absent fields, id, createdAt and position
\* are kept, every other user and the id counter are unchanged
C9_UpdateFrame ==
  [][ (req'.op = "update" /\ res'.status = 200)
      => /\ nextId' = nextId
         /\ Len(users') = Len(users)
         /\ \E i \in DOMAIN users :
              /\ users[i].id = parseInt(req'.id).n
              /\ \A j \in DOMAIN users : j # i => users'[j] = users[j]
              /\ users'[i].id = users[i].id
              /\ users'[i].createdAt = users[i].createdAt
              /\ req'.name = Undefined => users'[i].name = users[i].name
              /\ req'.email = Undefined => users'[i].email = users[i].email
              /\ DOMAIN users'[i] = DOMAIN users[i] \cup {"updatedAt"}
              /\ res'.user = <<users'[i]>> ]_vars

\* an update with an email and no name has succeeded on a user that is not
\* the first of the collection, at an instant later than its creation
C9_Witness ==
  /\ req.op = "update" /\ res.status = 200
  /\ req.name = Undefined /\ req.email # Undefined
  /\ res.user[1].updatedAt > res.user[1].createdAt
  /\ Len(users) > 1 /\ users[1] # res.user[1]

\* C10: a successful delete removes exactly the user addressed and returns
\* its id, name and email, the other users keep their order, and from then on
\* the id is held by no user and get, update and delete of it answer 404
C10_DeletedStaysDeleted ==
  [][ /\ (req'.op = "delete" /\ res'.status = 200) =>
           \E i \in DOMAIN users :
             /\ users[i].id = parseInt(req'.id).n
             /\ users' = SubSeq(users, 1, i - 1) \o SubSeq(users, i + 1, Len(users))
             /\ res'.user = << [id |-> users[i].id, name |-> users[i].name,
                               email |-> users[i].email] >>
             /\ users[i].id \in Deleted'
      /\ Deleted \subseteq Deleted'
      /\ ( /\ req'.op \in ByPathId
           /\ IsBase10Integer(req'.id)
           /\ Base10Value(req'.id) \in Deleted )
         => res' = NotFound ]_vars

\* after a delete and a later successful create, a get of the deleted id has
\* been answered 404
C10_Witness ==
  /\ req.op = "get" /\ res = NotFound
  /\ IsBase10Integer(req.id) /\ Base10Value(req.id) \in Deleted
  /\ \E i \in DOMAIN users : users[i].id > Base10Value(req.id)
  /\ Base10Value(req.id) >= FirstNextId

---------------------------------------------------------------------------
(* Vocabulary of the list properties *)

\* sub occurs in s at some offset
Contains(s, sub) ==
  \E i \in 0..(Len(s) - Len(sub)) : SubSeq(s, i + 1, i + Len(sub)) = sub

\* a filter is given when the parameter is a string
Given(q) == IsString(q)

\* the live users that pass the filters given, in store order
Matching(us, nameFilter, emailFilter) ==
  SelectSeq(us, LAMBDA u :
    /\ Given(nameFilter) =>
         Contains(toLowerCase(u.name), toLowerCase(nameFilter.s))
    /\ Given(emailFilter) =>
         Contains(toLowerCase(u.email), toLowerCase(emailFilter.s)))

\* the last request was a list and was answered 200
Listed == req.op = "list" /\ res.status = 200

\* the page and the limit the handler uses for the last request
UsedPage  == QueryInt(req.page, DefaultPage)
UsedLimit == QueryInt(req.limit, DefaultLimit)
UsedStart == (UsedPage - 1) * UsedLimit
UsedEnd   == UsedStart + UsedLimit

\* the users that pass the filters of the last request
Passing == Matching(users, req.name, req.email)

\* a page or limit parameter that is absent, not a number, zero or negative
NotPositive(q) ==
  q = Undefined \/ ~IsBase10Integer(q.s) \/ Base10Value(q.s) <= 0

\* the ids of us are in strictly increasing order
IncreasingIds(us) ==
  \A i, j \in DOMAIN us : i < j => us[i].id < us[j].id

\* the sequence of the ids of us
IdSeq(us) == [i \in DOMAIN us |-> us[i].id]

---------------------------------------------------------------------------
(* Properties of the list handler *)

\* C11: for any page and limit values, the number of users returned by list
\* is at most the effective limit, and hasNext is true exactly when the
\* filtered sequence has users at positions at or beyond startIndex+limit
C11_PageWithinLimit ==
  Listed =>
    /\ Len(res.users) <= UsedLimit
    /\ res.pagination.hasNext <=> (Len(Passing) > UsedStart + UsedLimit)

\* C12: the effective page is 1 whenever the page parameter is absent,
\* non-numeric, zero or negative, the effective limit is 10 whenever the limit
\* parameter is, and currentPage is always >= 1
C12_DefaultsApplied ==
  req.op = "list" =>
    /\ NotPositive(req.page) => UsedPage = 1
    /\ NotPositive(req.limit) => UsedLimit = 10
    /\ res.status = 200 => res.pagination.currentPage >= 1

\* C13: the users returned are the elements of the filtered sequence at the
\* positions startIndex up to but excluding endIndex that exist, in order;
\* a range outside the sequence gives an empty page and still 200
C13_PageIsRange ==
  ( /\ req.op = "list"
    /\ req.name = Undefined \/ Given(req.name)
    /\ req.email = Undefined \/ Given(req.email) )
  => /\ res.status = 200
     /\ res.users =
          SubSeq(Passing,
                 (IF UsedStart < 0 THEN 0 ELSE UsedStart) + 1,
                 IF UsedEnd > Len(Passing) THEN Len(Passing) ELSE UsedEnd)

\* C14: totalUsers is the number of users that pass the filters, totalPages
\* is ceil(totalUsers / limit), 0 when no user passes and never negative, and
\* hasPrev is true exactly when startIndex > 0, that is when the page is
\* greater than 1
C14_Metadata ==
  Listed =>
    LET p == res.pagination IN
    /\ p.totalUsers = Len(Passing)
    /\ p.totalPages >= 0
    /\ p.totalPages * UsedLimit >= Len(Passing)
    /\ (p.totalPages - 1) * UsedLimit < Len(Passing)
    /\ Len(Passing) = 0 => p.totalPages = 0
    /\ p.hasPrev <=> UsedStart > 0
    /\ p.hasPrev <=> UsedPage > 1

\* C15: the filtered sequence holds exactly the live users whose name
\* contains the name filter and whose email contains the email filter,
\* ignoring case, in store order; with no filter it is the whole collection
C15_FilteredExactly ==
  Listed =>
    /\ res.pagination.totalUsers = Len(Passing)
    /\ (req.page = Undefined /\ req.limit = Undefined) => res.users = Passing
    /\ (~Truthy(req.name) /\ ~Truthy(req.email)) =>
         res.pagination.totalUsers = Len(users)

\* a list with both filters in upper case has returned one of several users
C15_Witness ==
  /\ Listed
  /\ Given(req.name) /\ Truthy(req.name) /\ Given(req.email) /\ Truthy(req.email)
  /\ req.page = Undefined /\ req.limit = Undefined
  /\ Len(res.users) = 1 /\ Len(users) >= 3
  /\ ~Contains(res.users[1].name, req.name.s)

\* C16: the collection that list returns holds the live users in creation
\* order: ids strictly increasing, a new user last, an update moves no user
C16_CreationOrder ==
  [][ /\ IncreasingIds(users) /\ IncreasingIds(users')
      /\ (req'.op = "create" /\ res'.status = 201) =>
           users' = Append(users, res'.user[1])
      /\ (req'.op = "update" /\ res'.status = 200) =>
           IdSeq(users') = IdSeq(users)
      /\ ( /\ req'.op = "list" /\ res'.status = 200
           /\ req'.name = Undefined /\ req'.email = Undefined
           /\ req'.page = Undefined /\ req'.limit = Undefined )
         => res'.users = users ]_vars

\* the whole collection has been listed after a sample user was deleted,
\* another updated and a user created
C16_Witness ==
  /\ Listed
  /\ req.name = Undefined /\ req.email = Undefined
  /\ req.page = Undefined /\ req.limit = Undefined
  /\ res.users = users /\ Len(users) >= 2
  /\ \E k \in Deleted : k < FirstNextId
  /\ \E i \in DOMAIN users :
       users[i].id < FirstNextId /\ "updatedAt" \in DOMAIN users[i]
  /\ users[Len(users)].id >= FirstNextId

---------------------------------------------------------------------------
(* Properties of the timestamps, the failures and the update of an email *)

\* C17: in every reachable state every live user, the three sample users
\* included, has an updatedAt timestamp that is greater than or equal to its
\* createdAt
C17_UpdatedAtSet ==
  \A i \in DOMAIN users :
    /\ "updatedAt" \in DOMAIN users[i]
    /\ users[i].updatedAt >= users[i].createdAt

\* C18: every failure inside a handler is answered by that handler itself;
\* no response comes from the global error middleware
C18_HandlerAnswers ==
  res # NoResponse => res.by = "handler"

\* the user that the path id of request r designates in us
Target(us, r) == us[findIndex(us, Base10Value(r.id))]

\* request r is an update of a live user of us that supplies a text as email
EmailUpdate(us, r) ==
  /\ r.op = "update"
  /\ IsBase10Integer(r.id) /\ Base10Value(r.id) \in Ids(us)
  /\ IsString(r.email)

\* a user of us other than the one r updates holds the email of r, compared
\* case-insensitively
CollidesWithOther(us, r) ==
  \E i \in DOMAIN us :
    us[i].id # Base10Value(r.id) /\ SameIgnoringCase(us[i].email, r.email.s)

\* the email of r is the one the updated user has, compared case-insensitively
OwnEmail(us, r) == SameIgnoringCase(Target(us, r).email, r.email.s)

\* r carries no name, or one that is acceptable
NameAbsentOrAcceptable(r) == r.name = Undefined \/ NameAcceptable(r.name)

\* C20 as stated: an update that supplies an email equal, case-insensitively,
\* to the email of a different live user is answered 409 'Another user with
\* this email already exists' and changes nothing; one that supplies the
\* user's own email, in any letter case, is answered 200
C20_OtherEmail409OwnEmail200 ==
  [][ EmailUpdate(users, req') =>
        /\ CollidesWithOther(users, req') =>
             res' = UpdateConflict /\ users' = users
        /\ OwnEmail(users, req') => res'.status = 200 ]_vars

\* C20 amended: an update that supplies the email of a different live user
\* never succeeds and changes nothing, and is answered 409 when its name is
\* absent or acceptable; one that supplies the user's own email, in any letter
\* case, is answered 200 when its name is absent or acceptable
C20_EmailUpdateAfterName ==
  [][ EmailUpdate(users, req') =>
        /\ CollidesWithOther(users, req') =>
             /\ res'.status # 200
             /\ users' = users
             /\ NameAbsentOrAcceptable(req') => res' = UpdateConflict
        /\ (OwnEmail(users, req') /\ NameAbsentOrAcceptable(req')) =>
             res'.status = 200 ]_vars

\* an update with no name and the address of another user in another letter
\* case has been answered 409
C20_Witness ==
  /\ EmailUpdate(users, req) /\ res = UpdateConflict
  /\ req.name = Undefined
  /\ CollidesWithOther(users, req)
  /\ \A i \in DOMAIN users : users[i].email # req.email.s

---------------------------------------------------------------------------
(* Properties of the requests in flight at the same time *)

\* r is a create request with an acceptable name and a valid email
ValidCreate(r) ==
  r.op = "create" /\ NameAcceptable(r.name) /\ isValidEmail(r.email)

\* a is the record of a create that was answered 201
Created(a) == a.request.op = "create" /\ a.response.status = 201

\* the requests that were in flight together are all answered and were two
\* valid creates whose emails are equal case-insensitively and that no user
\* held when they arrived
TwoCreatesRaced ==
  /\ inflight = {} /\ Len(answered) = 2
  /\ ValidCreate(answered[1].request) /\ ValidCreate(answered[2].request)
  /\ SameIgnoringCase(answered[1].request.email.s, answered[2].request.email.s)
  /\ ~Collides(before, answered[1].request.email)

\* C19: requests in flight at the same time are answered as if their handlers
\* ran one after another: of two concurrent valid creates with
\* case-insensitively equal emails the one handled first is answered 201 and
\* the other 409, the collection gains the one user of the first, and two
\* concurrent creates never receive the same id
C19_ConcurrentCreates ==
  /\ \A i, j \in DOMAIN answered :
       (i # j /\ Created(answered[i]) /\ Created(answered[j]))
         => answered[i].response.user[1].id # answered[j].response.user[1].id
  /\ TwoCreatesRaced =>
       /\ answered[1].response.status = 201
       /\ answered[2].response = CreateConflict
       /\ users = Append(before, answered[1].response.user[1])

\* two creates whose emails differ in letter case only were in flight
\* together, and the one on the second connection was handled first
C19_Witness ==
  /\ TwoCreatesRaced
  /\ answered[1].request.email # answered[2].request.email
  /\ answered[1].connection = 2
  /\ answered[2].response.status = 409

---------------------------------------------------------------------------
(* Properties of the read operations *)

Reads == {"list", "get", "stats"}

\* C21: list, get-by-id and stats never change the store: the collection and
\* the id counter are the same before and after, for every query parameter
\* and path id; so a list request that repeats the one before it, with no
\* change of the store in between, gets the same users and pagination
C21_ReadsChangeNothing ==
  [][ /\ req'.op \in Reads => users' = users /\ nextId' = nextId
      /\ (req'.op = "list" /\ lastList # <<>> /\ lastList.request = req')
           => res' = lastList.response ]_vars

\* a list request with a filter and a page has been repeated, after the store
\* had lost one user and gained another, and has returned a user
C21_Witness ==
  /\ req.op = "list" /\ res.status = 200
  /\ lastList # <<>> /\ lastList.request = req /\ lastList.repeated
  /\ req.name # Undefined /\ req.limit # Undefined
  /\ Len(res.users) = 1
  /\ Deleted # {} /\ nextId > FirstNextId

---------------------------------------------------------------------------
(* Properties of the 500 responses and of the stored fields *)

\* the body of response r is only {error: 'Internal server error'}
GenericBody(r) ==
  /\ r.error = "Internal server error"
  /\ r.message = "" /\ r.details = <<>> /\ r.user = <<>>

\* C22: when the environment is production, no 500 response of a route or of
\* the global error middleware carries the failure's message or stack: its
\* body is only {error: 'Internal server error'}
C22_ProductionHidesDetails ==
  (env = "production" /\ res # NoResponse /\ res.status = 500)
    => GenericBody(res)

\* in production the global error middleware has answered an update whose
\* handler failed
C22_Witness ==
  /\ env = "production"
  /\ req.op = "update" /\ res.status = 500 /\ res.by = "middleware"

\* s has no whitespace and reads local-part '@' domain '.' tld, each part
\* non-empty and the '@' the only one
LocalAtDomainDotTld(s) ==
  /\ \A k \in DOMAIN s : ~IsSpace(s[k])
  /\ \E a \in DOMAIN s :
       /\ s[a] = "@" /\ a > 1
       /\ \A k \in DOMAIN s : s[k] = "@" => k = a
       /\ \E d \in DOMAIN s : s[d] = "." /\ d > a + 1 /\ d < Len(s)

\* C23: in every reachable state every live user's name has no leading or
\* trailing whitespace and length at least 2, and every live user's email is
\* lowercase, has no whitespace and matches local-part '@' domain '.' tld
C23_StoredFieldsNormal ==
  \A i \in DOMAIN users :
    /\ users[i].name # <<>>
    /\ ~IsSpace(Head(users[i].name))
    /\ ~IsSpace(users[i].name[Len(users[i].name)])
    /\ Len(users[i].name) >= 2
    /\ \A k \in DOMAIN users[i].email : users[i].email[k] \notin UpperSet
    /\ LocalAtDomainDotTld(users[i].email)

\* an update with a name in surrounding blanks and an email in upper case has
\* been answered 200
C23_Witness ==
  /\ req.op = "update" /\ res.status = 200
  /\ IsString(req.name) /\ IsSpace(Head(req.name.s))
  /\ IsString(req.email) /\ \E k \in DOMAIN req.email.s : req.email.s[k] \in UpperSet

---------------------------------------------------------------------------
(* Properties of the name check of the update *)

\* request r is an update of a live user of us that supplies a text as name
\* and no email
NameUpdate(us, r) ==
  /\ r.op = "update"
  /\ IsString(r.name) /\ r.email = Undefined
  /\ IsBase10Integer(r.id) /\ Base10Value(r.id) \in Ids(us)

\* the name of the user that r updates is, in us, the trimmed name of r
TrimmedNameStored(us, r) == Target(us, r).name = trim(r.name.s)

\* C24 as stated: the name check of the update is applied to the length of
\* the name as sent, with threshold 2, and the trimmed form is persisted: a
\* name of raw length >= 2 is accepted even when its trimmed length is below 2
C24_RawLengthChecked ==
  [][ NameUpdate(users, req') =>
        IF Len(req'.name.s) >= 2
        THEN res'.status = 200 /\ TrimmedNameStored(users', req')
        ELSE res' = NameError /\ users' = users ]_vars

\* C24 amended: the name check of the update is applied to the length of the
\* trimmed name, with threshold 2, and the trimmed form is persisted: a name
\* whose trimmed length is below 2 is answered 400 whatever its raw length
C24_TrimmedLengthChecked ==
  [][ NameUpdate(users, req') =>
        IF Len(trim(req'.name.s)) >= 2
        THEN res'.status = 200 /\ TrimmedNameStored(users', req')
        ELSE res' = NameError /\ users' = users ]_vars

\* an update whose name has raw length 2 and trimmed length 1 has been
\* answered 400
C24_Witness ==
  /\ NameUpdate(users, req) /\ res = NameError
  /\ Len(req.name.s) >= 2 /\ Len(trim(req.name.s)) < 2

---------------------------------------------------------------------------
(* Properties of the pages of a listing and of the number of users *)

\* the decimal text of the natural number n, as a query parameter
RECURSIVE Decimal(_)
Decimal(n) ==
  IF n < 10 THEN <<DecDigits[n + 1]>>
  ELSE Decimal(n \div 10) \o <<DecDigits[(n % 10) + 1]>>

\* the response to the list request r asked again for page p
PageOf(us, r, p) == ListAnswer(us, r.name, r.email, Str(Decimal(p)), r.limit)

\* the users of the pages p..last of the list request r, one after another
RECURSIVE PagesFrom(_, _, _, _)
PagesFrom(us, r, p, last) ==
  IF p > last THEN <<>>
  ELSE PageOf(us, r, p).users \o PagesFrom(us, r, p + 1, last)

\* C25: for the store, the filters and the limit of a list request with an
\* effective limit >= 1, the pages 1..totalPages partition the filtered
\* sequence: their users, in page order, are the filtered sequence; every page
\* before the last holds exactly limit users; every page beyond totalPages is
\* empty with hasNext false
C25_PagesPartition ==
  (Listed /\ UsedLimit >= 1) =>
    LET last == res.pagination.totalPages IN
    /\ PagesFrom(users, req, 1, last) = Passing
    /\ \A p \in 1..(last - 1) : Len(PageOf(users, req, p).users) = UsedLimit
    /\ \A p \in (last + 1)..(last + 2) :
         /\ PageOf(users, req, p).users = <<>>
         /\ ~PageOf(users, req, p).pagination.hasNext

\* a list with a filter and limit 1 has two pages or more, and the filter
\* keeps some users out
C25_Witness ==
  /\ Listed /\ UsedLimit = 1
  /\ Truthy(req.name)
  /\ res.pagination.totalPages >= 2
  /\ Len(users) > Len(Passing)

\* the last request was a list with no filter that was answered 200
ListedUnfiltered ==
  Listed /\ req.name = Undefined /\ req.email = Undefined

\* C26: after any sequence of requests, totalUsers of stats is the number of
\* live users, which is totalUsers of an unfiltered list and is 3 plus the
\* number of creates answered 201 minus the number of deletes answered 200:
\* it is 3 at the start, a create answered 201 adds one, a delete answered 200
\* takes one away, and no other request, an update included, changes it
C26_UserCount ==
  /\ Len(users) = 3
  /\ [][ /\ req'.op = "stats" => res'.totalUsers = Len(users')
         /\ ListedUnfiltered' => res'.pagination.totalUsers = Len(users')
         /\ Len(users') = Len(users)
              + (IF req'.op = "create" /\ res'.status = 201 THEN 1 ELSE 0)
              - (IF req'.op = "delete" /\ res'.status = 200 THEN 1 ELSE 0)
     ]_vars

\* stats has reported four users after two creates, a delete and an update
C26_Witness ==
  /\ req.op = "stats" /\ res.totalUsers = 4 /\ Len(users) = 4
  /\ nextId = FirstNextId + 2
  /\ Cardinality(Deleted) = 1
  /\ \E i \in DOMAIN users : "updatedAt" \in DOMAIN users[i] /\ users[i].id < FirstNextId

====
